---------------------------- MODULE Spec2Model ----------------------------
(***************************************************************************)
(* A model of the magazine package: the live-upgrade strategies and the    *)
(* reload orchestrator of src/magazine/reload.py and the import observer   *)
(* of src/magazine/importhook.py.                                          *)
(*                                                                         *)
(* Python objects live in a heap, a sequence of records indexed by object  *)
(* identity; None is identity 0.  Every operation of reload.py is an       *)
(* operator from a heap to a result record                                 *)
(*     [h |-> heap after, ret |-> returned value, exc |-> exception that   *)
(*      left the call or "none", log |-> the steps it took]                *)
(* so that an exception that the code does not catch ends the operation    *)
(* where Python would end it.                                              *)
(***************************************************************************)
EXTENDS Integers, Sequences, FiniteSets, TLC

\* ------------------------------------------------------------------ bounds
MaxInst == 2        \* live instances of the old class in an upgrade scenario

MaxReloads == 2     \* reload calls on the module in one behaviour
MaxHeld == 2        \* references that holders outside the module keep
MaxMade == 1        \* instances that holders make of the module's classes
MaxObs == 2         \* observers installed in one behaviour
MaxNest == 3        \* imports in progress at once, one inside the other

VARIABLES
    heap,       \* the objects, by identity
    pc,         \* SpecUpgrade: "ready" before the call, "done" after it
    old, new,   \* SpecUpgrade: the pair handed to the upgrade
    ups,        \* SpecUpgrade: the strategy list handed to the call
    heap0,      \* the heap before the last call
    last,       \* SpecUpgrade: what the call did (operation, ret, exc, log)
    ns,         \* SpecReload: module.__dict__, name -> identity (0: no entry)
    held,       \* SpecReload: the identities that outside holders reference
    reloads,    \* SpecReload: the reload calls made so far
    ever,       \* SpecReload: every <<name, identity>> the namespace has bound
    rl,         \* SpecReload: what the last reload call did, and its source
    meta_path,  \* SpecHook: sys.meta_path, the chain of finders
    handles,    \* SpecHook: the observers whose context is entered
    made,       \* SpecHook: the observers made so far
    resolving,  \* SpecHook: each observer's stack of names in flight
    stack,      \* SpecHook: the frames of the calls in progress
    returned,   \* SpecHook: the spec that the call just ended returns
    sys_modules, \* SpecHook: the names of the modules in sys.modules
    lastload    \* SpecHook: the load that returned last

uvars == <<heap, pc, old, new, ups, heap0, last>>
rvars == <<ns, held, reloads, ever, rl>>
hvars == <<meta_path, handles, made, resolving, stack, returned, sys_modules,
           lastload>>
vars == <<uvars, rvars, hvars>>

None == 0
NoExc == "none"

\* ------------------------------------------------------------ the objects
\* A plain function: its six aspects and its owning-module marker.  code is
\* the compiled body, nfree the number of free variables that body needs;
\* closure holds one cell per free variable.
Function(body, nfree, env, stamp, owner) ==
    [kind |-> "function", module |-> owner,
     code |-> [body |-> body, nfree |-> nfree],
     closure |-> [i \in 1..nfree |-> env],
     defaults |-> stamp, dict |-> stamp, doc |-> stamp, globals |-> owner]

\* A class: its own members (0: the name is not in its __dict__), one base
\* (0: object) and the instance layout that __class__ assignment compares.
Class(members, base, layout, owner) ==
    [kind |-> "class", module |-> owner, members |-> members,
     base |-> base, layout |-> layout]

Instance(cls, fields) == [kind |-> "instance", cls |-> cls, fields |-> fields]

Property(fget, fset, fdel) ==
    [kind |-> "property", fget |-> fget, fset |-> fset, fdel |-> fdel]

Method(func, self) == [kind |-> "method", func |-> func, self |-> self]

Data(val) == [kind |-> "data", val |-> val]

MemberNames == {"m", "k"}
\* The order in which a class __dict__ yields its keys.
MemberOrder == <<"m", "k">>
NoMembers == [n \in MemberNames |-> None]

FunctionAspects ==
    {"__closure__", "__code__", "__defaults__", "__dict__", "__doc__", "__globals__"}

\* ------------------------------------------------- the host's object model
isfunction(h, x) == x # None /\ h[x].kind = "function"
isclass(h, x) == x # None /\ h[x].kind = "class"
ismethod(h, x) == x # None /\ h[x].kind = "method"
isproperty(h, x) == x # None /\ h[x].kind = "property"

\* The class that defines name along the base chain of cls, or None.
RECURSIVE Definer(_, _, _)
Definer(h, cls, name) ==
    IF cls = None THEN None
    ELSE IF h[cls].members[name] # None THEN cls
    ELSE Definer(h, h[cls].base, name)

\* getattr(obj, name): [val, exc].
getattr(h, obj, name) ==
    IF isclass(h, obj) /\ name \in MemberNames THEN
        LET d == Definer(h, obj, name) IN
        IF d = None THEN [val |-> None, exc |-> "AttributeError"]
        ELSE [val |-> h[d].members[name], exc |-> NoExc]
    ELSE IF isfunction(h, obj) /\ name \in FunctionAspects THEN
        [val |-> CASE name = "__closure__" -> h[obj].closure
                   [] name = "__code__" -> h[obj].code
                   [] name = "__defaults__" -> h[obj].defaults
                   [] name = "__dict__" -> h[obj].dict
                   [] name = "__doc__" -> h[obj].doc
                   [] name = "__globals__" -> h[obj].globals,
         exc |-> NoExc]
    ELSE IF isproperty(h, obj) /\ name \in {"fget", "fset", "fdel"} THEN
        [val |-> CASE name = "fget" -> h[obj].fget
                   [] name = "fset" -> h[obj].fset
                   [] name = "fdel" -> h[obj].fdel,
         exc |-> NoExc]
    ELSE [val |-> None, exc |-> "AttributeError"]

\* setattr(obj, name, val): [h, exc].  A function's __closure__ and
\* __globals__ are read-only; its __code__ takes only a body with as many
\* free variables as the function has cells (ValueError otherwise).
setattr(h, obj, name, val) ==
    IF isclass(h, obj) /\ name \in MemberNames THEN
        [h |-> [h EXCEPT ![obj].members[name] = val], exc |-> NoExc]
    ELSE IF isfunction(h, obj) /\ name \in FunctionAspects THEN
        CASE name \in {"__closure__", "__globals__"} ->
                [h |-> h, exc |-> "AttributeError"]
          [] name = "__code__" ->
                IF val.nfree # Len(h[obj].closure)
                THEN [h |-> h, exc |-> "ValueError"]
                ELSE [h |-> [h EXCEPT ![obj].code = val], exc |-> NoExc]
          [] name = "__defaults__" ->
                [h |-> [h EXCEPT ![obj].defaults = val], exc |-> NoExc]
          [] name = "__dict__" ->
                [h |-> [h EXCEPT ![obj].dict = val], exc |-> NoExc]
          [] name = "__doc__" ->
                [h |-> [h EXCEPT ![obj].doc = val], exc |-> NoExc]
    ELSE [h |-> h, exc |-> "AttributeError"]

\* delattr(obj, name): [h, exc]; only a name in the class's own __dict__.
delattr(h, obj, name) ==
    IF isclass(h, obj) /\ name \in MemberNames /\ h[obj].members[name] # None
    THEN [h |-> [h EXCEPT ![obj].members[name] = None], exc |-> NoExc]
    ELSE [h |-> h, exc |-> "AttributeError"]

\* type(x) is cls
TypeIs(h, x, cls) == x # None /\ h[x].kind = "instance" /\ h[x].cls = cls

\* The objects that hold a direct reference to x (gc.get_referrers).
Refers(h, i, x) ==
    CASE h[i].kind = "instance" -> h[i].cls = x
      [] h[i].kind = "class" ->
            h[i].base = x \/ \E n \in MemberNames : h[i].members[n] = x
      [] h[i].kind = "method" -> h[i].func = x \/ h[i].self = x
      [] h[i].kind = "property" -> x \in {h[i].fget, h[i].fset, h[i].fdel}
      [] OTHER -> FALSE

get_referrers(h, x) == {i \in DOMAIN h : Refers(h, i, x)}

\* ref.__class__ = cls: TypeError when the two layouts differ.
SetClass(h, ref, cls) ==
    IF h[h[ref].cls].layout # h[cls].layout
    THEN [h |-> h, exc |-> "TypeError"]
    ELSE [h |-> [h EXCEPT ![ref].cls = cls], exc |-> NoExc]

\* ----------------------------------------------------- reload.py, helpers
\* Every step takes the result of the step before it as a parameter:
\* st is [h, exc] (or [h, exc, log]), and a step does nothing once st.exc
\* names an exception that is on its way out of the call.
R(h, ret, exc, log) == [h |-> h, ret |-> ret, exc |-> exc, log |-> log]

\* except (AttributeError, TypeError): pass
Absorbed == {"AttributeError", "TypeError"}
Absorb(h, r) == IF r.exc \in Absorbed THEN [h |-> h, exc |-> NoExc] ELSE r

\* setattr(dst, name, <the value g that getattr(src, name) gave>)
CopyValue(h, dst, name, g) ==
    IF g.exc # NoExc THEN Absorb(h, [h |-> h, exc |-> g.exc])
    ELSE Absorb(h, setattr(h, dst, name, g.val))

\* _copyattr(dst, src, name): [h, exc]
_copyattr(h, dst, src, name) == CopyValue(h, dst, name, getattr(h, src, name))

\* _delattr(obj, name): [h, exc]
_delattr(h, obj, name) == Absorb(h, delattr(h, obj, name))

\* -------------------------------------------------- reload.py, strategies
\* The six copies of upgrade_function, in the order of the source; an
\* exception that _copyattr does not absorb ends them.
\* A copy that leaves the code object out.
AspectOrder_NoCode ==
    <<"__closure__", "__defaults__", "__dict__", "__doc__", "__globals__">>

AspectOrder ==
    <<"__closure__", "__code__", "__defaults__", "__dict__", "__doc__", "__globals__">>

RECURSIVE CopyAspects(_, _, _, _)
CopyNext(c, dst, src, i) ==
    IF c.exc # NoExc THEN c ELSE CopyAspects(c.h, dst, src, i + 1)

CopyAspects(h, dst, src, i) ==
    IF i > Len(AspectOrder) THEN [h |-> h, exc |-> NoExc]
    ELSE CopyNext(_copyattr(h, dst, src, AspectOrder[i]), dst, src, i)

\* return True, unless an exception is leaving the call
Returned(st, log) == R(st.h, st.exc = NoExc, st.exc, log)

upgrade_function(h, o, n, upgraders) ==
    IF ~isfunction(h, o) \/ ~isfunction(h, n) THEN R(h, FALSE, NoExc, <<>>)
    ELSE Returned(CopyAspects(h, o, n, 1), <<>>)

upgrade_method(h, o, n, upgraders) ==
    IF ~ismethod(h, o) \/ ~ismethod(h, n) THEN R(h, FALSE, NoExc, <<>>)
    ELSE upgrade_function(h, h[o].func, h[n].func, upgraders)

\* property.getter / setter / deleter: a copy of the descriptor with that
\* one part replaced; the descriptor it is called on is left as it was.
property_mutator(h, obj, mutator, part) ==
    CASE mutator = "getter" -> Property(part, h[obj].fset, h[obj].fdel)
      [] mutator = "setter" -> Property(h[obj].fget, part, h[obj].fdel)
      [] mutator = "deleter" -> Property(h[obj].fget, h[obj].fset, part)

\* The expression statement of line 172: the descriptor that the mutator
\* returns is dropped, and no object of the heap has changed.
Dropped(h, result) == [h |-> h, exc |-> NoExc]

Outcome(u) == [h |-> u.h, exc |-> u.exc]

PartUpgrade(h, o, mutator, oldpart, newpart, upgraders) ==
    IF isfunction(h, oldpart) /\ isfunction(h, newpart)
    THEN Outcome(upgrade_function(h, oldpart, newpart, upgraders))
    ELSE Dropped(h, property_mutator(h, o, mutator, newpart))

\* [h, exc]
upgrade_property_part(h, o, n, name, mutator, upgraders) ==
    PartUpgrade(h, o, mutator, getattr(h, o, name).val, getattr(h, n, name).val,
                upgraders)

NextPart(st, o, n, name, mutator, upgraders) ==
    IF st.exc # NoExc THEN st
    ELSE upgrade_property_part(st.h, o, n, name, mutator, upgraders)

upgrade_property(h, o, n, upgraders) ==
    IF ~isproperty(h, o) \/ ~isproperty(h, n) THEN R(h, FALSE, NoExc, <<>>)
    ELSE Returned(
            NextPart(
                NextPart(
                    upgrade_property_part(h, o, n, "fget", "getter", upgraders),
                    o, n, "fset", "setter", upgraders),
                o, n, "fdel", "deleter", upgraders),
            <<>>)

RECURSIVE upgrade(_, _, _, _)

\* The keys of cls.__dict__, in the order the dict yields them.
OwnKeys(h, cls) ==
    SelectSeq(MemberOrder, LAMBDA k : h[cls].members[k] # None)

Logged(st, event) == [h |-> st.h, exc |-> st.exc, log |-> Append(st.log, event)]

\* The first loop of upgrade_class over keys[i..]: st is [h, exc, log],
\* remove the keys marked so far.  Returns [st, remove].
RECURSIVE ScanMembers(_, _, _, _, _, _, _)

\* old's member after the fallback _copyattr(old, new, key) of line 126
ScanReplaced(c, log, o, n, upgraders, keys, i, remove) ==
    ScanMembers([h |-> c.h, exc |-> c.exc,
                 log |-> Append(log, <<"replaced", o, keys[i]>>)],
                o, n, upgraders, keys, i + 1, remove)

\* after u, the result of upgrade(oldattr, newattr, upgraders) of line 125
ScanUpgraded(u, log, o, n, upgraders, keys, i, remove) ==
    IF u.exc # NoExc THEN
        [st |-> [h |-> u.h, exc |-> u.exc, log |-> log \o u.log],
         remove |-> remove]
    ELSE IF u.ret THEN
        ScanMembers([h |-> u.h, exc |-> NoExc,
                     log |-> Append(log \o u.log, <<"upgraded", o, keys[i]>>)],
                    o, n, upgraders, keys, i + 1, remove)
    ELSE ScanReplaced(_copyattr(u.h, o, n, keys[i]), log \o u.log,
                      o, n, upgraders, keys, i, remove)

\* one key, with what getattr(old, key) and getattr(new, key) gave
ScanKey(st, oldattr, newattr, o, n, upgraders, keys, i, remove) ==
    IF oldattr.exc = "TypeError" THEN
        ScanMembers(st, o, n, upgraders, keys, i + 1, remove)
    ELSE IF newattr.exc = "AttributeError" THEN
        ScanMembers(st, o, n, upgraders, keys, i + 1, Append(remove, keys[i]))
    ELSE IF oldattr.val = newattr.val THEN
        ScanMembers(st, o, n, upgraders, keys, i + 1, remove)
    ELSE ScanUpgraded(upgrade(st.h, oldattr.val, newattr.val, upgraders),
                      st.log, o, n, upgraders, keys, i, remove)

ScanMembers(st, o, n, upgraders, keys, i, remove) ==
    IF i > Len(keys) \/ st.exc # NoExc THEN [st |-> st, remove |-> remove]
    ELSE ScanKey(Logged(st, <<"scan", o, keys[i]>>),
                 getattr(st.h, o, keys[i]), getattr(st.h, n, keys[i]),
                 o, n, upgraders, keys, i, remove)

\* The second loop: the deletions, in the order they were marked.
RECURSIVE RemoveMembers(_, _, _, _)
Removed(d, log, o, remove, i) ==
    RemoveMembers([h |-> d.h, exc |-> d.exc,
                   log |-> Append(log, <<"del", o, remove[i]>>)],
                  o, remove, i + 1)

RemoveMembers(st, o, remove, i) ==
    IF i > Len(remove) \/ st.exc # NoExc THEN st
    ELSE Removed(_delattr(st.h, o, remove[i]), st.log, o, remove, i)

\* set(new.__dict__) - old.__dict__.keys()
MissingKeys(h, o, n) ==
    {k \in MemberNames : h[n].members[k] # None /\ h[o].members[k] = None}

\* The third loop: the names new defines itself and old does not.
RECURSIVE AddMembers(_, _, _, _)
Added(c, log, o, n, key, todo) ==
    AddMembers([h |-> c.h, exc |-> c.exc, log |-> Append(log, <<"add", o, key>>)],
               o, n, todo \ {key})

AddKey(st, o, n, key, todo) ==
    Added(_copyattr(st.h, o, n, key), st.log, o, n, key, todo)

AddMembers(st, o, n, todo) ==
    IF todo = {} \/ st.exc # NoExc THEN st
    ELSE AddKey(st, o, n, CHOOSE k \in todo : TRUE, todo)

\* A last loop that finds nothing to retag.
RetagTargets_Skipped(h, o) == {}

\* The referrers of old that the last loop retags.
RetagTargets(h, o) == {ref \in get_referrers(h, o) : TypeIs(h, ref, o)}

RECURSIVE Retag(_, _, _, _)
Retagged(c, log, o, n, ref, todo) ==
    Retag([h |-> c.h, exc |-> c.exc,
           log |-> IF c.exc = NoExc THEN Append(log, <<"retag", o, ref>>) ELSE log],
          o, n, todo \ {ref})

RetagOne(st, o, n, ref, todo) ==
    Retagged(SetClass(st.h, ref, n), st.log, o, n, ref, todo)

Retag(st, o, n, todo) ==
    IF todo = {} \/ st.exc # NoExc THEN st
    ELSE RetagOne(st, o, n, CHOOSE r \in todo : TRUE, todo)

\* The loops of upgrade_class, each on the state the one before it left.
\* A scan whose deletions are never carried out.
RemoveAll_Skipped(s1, o) == s1.st

RemoveAll(s1, o) == RemoveMembers(s1.st, o, s1.remove, 1)

\* A third loop that copies nothing.
AddAll_Skipped(s2, o, n) == s2

AddAll(s2, o, n) ==
    IF s2.exc # NoExc THEN s2 ELSE AddMembers(s2, o, n, MissingKeys(s2.h, o, n))

RetagAll(s3, o, n) ==
    IF s3.exc # NoExc THEN s3 ELSE Retag(s3, o, n, RetagTargets(s3.h, o))

\* return True, with the log of the loops
Finished(st) == R(st.h, st.exc = NoExc, st.exc, st.log)

upgrade_class(h, o, n, upgraders) ==
    IF ~isclass(h, o) \/ ~isclass(h, n) THEN R(h, FALSE, NoExc, <<>>)
    ELSE Finished(
            RetagAll(
                AddAll(
                    RemoveAll(
                        ScanMembers([h |-> h, exc |-> NoExc, log |-> <<>>],
                                    o, n, upgraders, OwnKeys(h, o), 1, <<>>),
                        o),
                    o, n),
                o, n))

UPGRADERS ==
    <<"upgrade_class", "upgrade_function", "upgrade_property", "upgrade_method">>

\* Calling one entry of a strategy list.
Apply(strategy, h, o, n, upgraders) ==
    CASE strategy = "upgrade_class" -> upgrade_class(h, o, n, upgraders)
      [] strategy = "upgrade_function" -> upgrade_function(h, o, n, upgraders)
      [] strategy = "upgrade_property" -> upgrade_property(h, o, n, upgraders)
      [] strategy = "upgrade_method" -> upgrade_method(h, o, n, upgraders)

\* any(...) over a generator: the strategies are called one after the other
\* and the first true result ends the iteration.  tried lists the calls made.
RECURSIVE AnyUpgrader(_, _, _, _, _, _, _)
\* An iteration that goes on after a strategy has returned true.
AnyNext_Exhaustive(r, o, n, upgraders, i, tried, log) ==
    IF r.exc # NoExc \/ (r.ret /\ i = Len(upgraders)) THEN
        [h |-> r.h, ret |-> r.ret, exc |-> r.exc, log |-> log \o r.log,
         tried |-> tried]
    ELSE AnyUpgrader(r.h, o, n, upgraders, i + 1, tried, log \o r.log)

AnyNext(r, o, n, upgraders, i, tried, log) ==
    IF r.exc # NoExc \/ r.ret THEN
        [h |-> r.h, ret |-> r.ret, exc |-> r.exc, log |-> log \o r.log,
         tried |-> tried]
    ELSE AnyUpgrader(r.h, o, n, upgraders, i + 1, tried, log \o r.log)

AnyUpgrader(h, o, n, upgraders, i, tried, log) ==
    IF i > Len(upgraders) THEN
        [h |-> h, ret |-> FALSE, exc |-> NoExc, log |-> log, tried |-> tried]
    ELSE AnyNext(Apply(upgraders[i], h, o, n, upgraders),
                 o, n, upgraders, i, Append(tried, upgraders[i]), log)

upgrade(h, o, n, upgraders) == AnyUpgrader(h, o, n, upgraders, 1, <<>>, <<>>)

\* ---------------------------------------------- SpecUpgrade: the scenarios
\* One call of a public upgrade operation on a pair of objects.  The heaps
\* are drawn from three families: a pair of classes with members, bases and
\* live instances; a pair of computed-attribute descriptors; and any pair out
\* of a heap that holds one object or more of every kind.

OldShapes == {"none", "func0", "func1", "data", "prop"}
NewShapes == OldShapes \cup {"shared"}

\* The member object of one shape; stamp tells the old definition (1) from
\* the new one (2).
Shaped(shape, stamp) ==
    CASE shape = "func0" -> Function(stamp, 0, stamp, stamp, "mod")
      [] shape = "func1" -> Function(stamp, 1, stamp, stamp, "mod")
      [] shape = "prop" -> Property(None, None, None)
      [] OTHER -> Data(stamp)

\* Identities in the heap of a class pair: the base of the old class and
\* the base of the new one, the old class, the new class, a subclass of the
\* old class.
At == [OB |-> 1, NB |-> 2, O |-> 3, N |-> 4, SubO |-> 11]
OldSlot(name) == IF name = "m" THEN 5 ELSE 6
NewSlot(name) == IF name = "m" THEN 7 ELSE 8

ClassPairHeap(om, nm, obase, nbase, nlayout, ninst) ==
    LET omem == [k \in MemberNames |->
                    IF om[k] = "none" THEN None ELSE OldSlot(k)]
        nmem == [k \in MemberNames |->
                    CASE nm[k] = "none" -> None
                      [] nm[k] = "shared" -> OldSlot(k)
                      [] OTHER -> NewSlot(k)]
        fixed == <<
            Class([NoMembers EXCEPT !["m"] = 9], None, 0, "mod"),
            Class([NoMembers EXCEPT !["m"] = 10], None, 0, "mod"),
            Class(omem, IF obase THEN At.OB ELSE None, 0, "mod"),
            Class(nmem, IF nbase THEN At.NB ELSE None, nlayout, "mod"),
            Shaped(om["m"], 1), Shaped(om["k"], 1),
            Shaped(nm["m"], 2), Shaped(nm["k"], 2),
            Function(1, 0, 1, 1, "mod"), Function(2, 0, 2, 2, "mod"),
            Class(NoMembers, At.O, 0, "mod"),
            Instance(At.SubO, 0) >>
    IN  fixed \o [i \in 1..ninst |-> Instance(At.O, i)]

PartShapes == {"none", "func0", "func1", "other"}

\* Identities in the heap of a descriptor pair: the two descriptors, then
\* the three parts of the old one and the three parts of the new one.
Prop == [old |-> 1, new |-> 2]
PartSlot(side, part) ==
    2 + (IF side = "new" THEN 3 ELSE 0)
      + (CASE part = "fget" -> 1 [] part = "fset" -> 2 [] part = "fdel" -> 3)

PropPairHeap(op, np) ==
    LET ref(side, sh, part) ==
            IF sh[part] = "none" THEN None ELSE PartSlot(side, part)
        part(sh, stamp) ==
            CASE sh = "func0" -> Function(stamp, 0, stamp, stamp, "mod")
              [] sh = "func1" -> Function(stamp, 1, stamp, stamp, "mod")
              [] OTHER -> Data(stamp)
    IN  << Property(ref("old", op, "fget"), ref("old", op, "fset"), ref("old", op, "fdel")),
           Property(ref("new", np, "fget"), ref("new", np, "fset"), ref("new", np, "fdel")),
           part(op["fget"], 1), part(op["fset"], 1), part(op["fdel"], 1),
           part(np["fget"], 2), part(np["fset"], 2), part(np["fdel"], 2) >>

PartChoices ==
    {sh \in [{"fget", "fset", "fdel"} -> PartShapes] :
        sh["fset"] # "func1" /\ sh["fdel"] \in {"none", "func0"}}

\* A heap with objects of every kind, for the dispatcher.
ZooHeap ==
    << Function(1, 0, 1, 1, "mod"), Function(2, 0, 2, 2, "mod"),
       Function(2, 1, 2, 2, "mod"),
       Class(NoMembers, None, 0, "mod"), Class(NoMembers, None, 0, "mod"),
       Method(1, 8), Method(2, 8), Instance(4, 1),
       Data(1), Data(2),
       Property(1, None, None), Property(2, None, None),
       Method(9, 8) >>

StrategyLists ==
    { UPGRADERS, <<>>,
      <<"upgrade_method", "upgrade_property", "upgrade_function", "upgrade_class">>,
      <<"upgrade_function", "upgrade_function">>,
      <<"upgrade_class">> }

NoCall == [op |-> "none", ret |-> FALSE, exc |-> NoExc, log |-> <<>>, tried |-> <<>>]

InitClassPair ==
    \E om \in [MemberNames -> OldShapes], nm \in [MemberNames -> NewShapes],
       obase \in BOOLEAN, nbase \in BOOLEAN, nlayout \in {0, 1},
       ninst \in 1..MaxInst :
        /\ \A k \in MemberNames : nm[k] = "shared" => om[k] # "none"
        /\ heap = ClassPairHeap(om, nm, obase, nbase, nlayout, ninst)
        /\ old = At.O /\ new = At.N
        /\ ups \in {UPGRADERS, <<"upgrade_class">>}

InitPropPair ==
    \E op \in PartChoices, np \in PartChoices :
        /\ heap = PropPairHeap(op, np)
        /\ old = Prop.old /\ new = Prop.new
        /\ ups = UPGRADERS

InitZoo ==
    /\ heap = ZooHeap
    /\ old \in DOMAIN ZooHeap /\ new \in DOMAIN ZooHeap
    /\ ups \in StrategyLists

InitCall ==
    /\ heap0 = heap
    /\ pc = "ready"
    /\ last = NoCall
    /\ ns = <<>> /\ held = {} /\ reloads = 0 /\ ever = {} /\ rl = <<>>
    /\ meta_path = <<>> /\ handles = {} /\ made = 0 /\ resolving = <<>>
    /\ stack = <<>> /\ returned = <<>> /\ sys_modules = {} /\ lastload = <<>>

InitUpgrade ==
    \/ InitClassPair /\ InitCall
    \/ InitPropPair /\ InitCall
    \/ InitZoo /\ InitCall

\* One call of a strategy, or of the dispatcher, of the public surface.
Call(op, r) ==
    /\ pc = "ready"
    /\ pc' = "done"
    /\ heap' = r.h
    /\ last' = [op |-> op, ret |-> r.ret, exc |-> r.exc, log |-> r.log,
                tried |-> IF op = "upgrade" THEN r.tried ELSE <<>>]
    /\ UNCHANGED <<old, new, ups, heap0, rvars, hvars>>

CallUpgrade == Call("upgrade", upgrade(heap, old, new, ups))
CallUpgradeClass == Call("upgrade_class", upgrade_class(heap, old, new, ups))
CallUpgradeFunction == Call("upgrade_function", upgrade_function(heap, old, new, ups))
CallUpgradeProperty == Call("upgrade_property", upgrade_property(heap, old, new, ups))
CallUpgradeMethod == Call("upgrade_method", upgrade_method(heap, old, new, ups))

NextUpgrade ==
    \/ CallUpgrade
    \/ CallUpgradeClass
    \/ CallUpgradeFunction
    \/ CallUpgradeProperty
    \/ CallUpgradeMethod

SpecUpgrade == InitUpgrade /\ [][NextUpgrade]_vars


\* ------------------------------------------------------ reload.py, reload
ModName == "mod"
TopNames == {"f", "C"}
BootNames == {"__name__", "__loader__", "__spec__"}
Keys == TopNames \cup BootNames \cup {"__magazine__"}

\* The heap of a module that the host has just imported: the values of its
\* three bootstrap entries and a function that another module owns.
BaseHeap ==
    << Data("__name__"), Data("__loader__"), Data("__spec__"),
       Function(0, 0, 0, 0, "other") >>
Base == [name |-> 1, loader |-> 2, spec |-> 3, ext |-> 4]

\* defaultdict(weakref.WeakSet): the names in the order they were first
\* used as a key, and the identities each name's set holds.
Registry(keys, refs) == [kind |-> "registry", keys |-> keys, refs |-> refs]
NoRefs == [n \in TopNames |-> {}]
Dead(obj) == [kind |-> "dead", was |-> obj.kind]

\* getattr(obj, '__module__', None)
ModuleOf(h, x) ==
    IF x = None THEN "none"
    ELSE CASE h[x].kind \in {"function", "class"} -> h[x].module
           [] h[x].kind = "instance" -> h[h[x].cls].module
           [] h[x].kind = "method" ->
                IF isfunction(h, h[x].func) THEN h[h[x].func].module ELSE "none"
           [] OTHER -> "none"

\* -- the host's memory management
\* The identities an object keeps alive; a registry keeps none alive.
Referents(h, i) ==
    (CASE h[i].kind = "instance" -> {h[i].cls}
       [] h[i].kind = "class" ->
            {h[i].base} \cup {h[i].members[k] : k \in MemberNames}
       [] h[i].kind = "method" -> {h[i].func, h[i].self}
       [] h[i].kind = "property" -> {h[i].fget, h[i].fset, h[i].fdel}
       [] OTHER -> {}) \ {None}

RECURSIVE Reach(_, _, _)
Reach(h, frontier, seen) ==
    IF frontier = {} THEN seen
    ELSE Reach(h, (UNION {Referents(h, i) : i \in frontier}) \ (seen \cup frontier),
               seen \cup frontier)

\* What nothing references any more, given the roots of the module's side;
\* the function of the other module is kept alive by that module.
Garbage(h, roots) ==
    {i \in DOMAIN h : h[i].kind # "dead"}
        \ Reach(h, (roots \cup {Base.ext}) \ {None}, {})

\* A class is part of reference cycles: an unreachable class, and what only
\* it keeps alive, stays until the cycle collector runs.
Lingering(h, garbage) == Reach(h, {i \in garbage : h[i].kind = "class"}, {})

\* Freeing the objects in dead empties them out of every weak set.
Sweep(h, dead) ==
    [i \in DOMAIN h |->
        IF i \in dead THEN Dead(h[i])
        ELSE IF h[i].kind = "registry"
             THEN [h[i] EXCEPT !.refs = [n \in TopNames |-> @[n] \ dead]]
             ELSE h[i]]

SweepGarbage(h, garbage, full) ==
    Sweep(h, IF full THEN garbage ELSE garbage \ Lingering(h, garbage))

\* The heap once the unreachable objects are freed: all of them when the
\* cycle collector has run (full), else those that no cycle holds.
Collect(h, roots, full) == SweepGarbage(h, Garbage(h, roots), full)

Values(nsp) == {nsp[k] : k \in DOMAIN nsp} \ {None}

\* -- the host's re-execution of the module body
\* The new source: what it binds f and C to, in that order, and whether it
\* raises before the first statement or after the first one.
FShapes == {"none", "func0", "func1", "data"}
CShapes == {"none", "class", "ext"}
Sources ==
    {src \in [f : FShapes, C : CShapes, fail : {"no", "start", "mid"}] :
        /\ src.fail = "start" => (src.f = "none" /\ src.C = "none")
        /\ src.fail = "mid" => (src.f # "none" /\ src.C = "none")}

\* One top-level statement: st is [h, ns, exc].
Bind(st, name, shape, gen) ==
    CASE shape = "func0" ->
            [st EXCEPT !.h = Append(@, Function(gen, 0, gen, gen, ModName)),
                       !.ns[name] = Len(st.h) + 1]
      [] shape = "func1" ->
            [st EXCEPT !.h = Append(@, Function(gen, 1, gen, gen, ModName)),
                       !.ns[name] = Len(st.h) + 1]
      [] shape = "data" ->
            [st EXCEPT !.h = Append(@, Data(gen)), !.ns[name] = Len(st.h) + 1]
      [] shape = "class" ->
            [st EXCEPT !.h = @ \o << Function(gen, 0, gen, gen, ModName),
                                     Class([NoMembers EXCEPT !["m"] = Len(st.h) + 1],
                                           None, 0, ModName) >>,
                       !.ns[name] = Len(st.h) + 2]
      [] shape = "ext" -> [st EXCEPT !.ns[name] = Base.ext]
      [] OTHER -> st

Raise(st, exc) == [st EXCEPT !.exc = exc]

ExecRest(st, src, gen) ==
    IF src.fail = "mid" THEN Raise(st, "ExecError")
    ELSE Bind(st, "C", src.C, gen)

\* importlib.reload(module): [h, ns, exc]
_reload(h, nsp, src, gen) ==
    IF src.fail = "start" THEN [h |-> h, ns |-> nsp, exc |-> "ExecError"]
    ELSE ExecRest(Bind([h |-> h, ns |-> nsp, exc |-> NoExc], "f", src.f, gen),
                  src, gen)

\* -- reload(module, upgraders)
\* A reload that starts a registry of its own every time.
magazine_refs_Fresh(h, nsp) ==
    [h |-> Append(h, Registry(<<>>, NoRefs)), reg |-> Len(h) + 1]

\* module.__dict__.get('__magazine__', defaultdict(weakref.WeakSet)):
\* [h, reg], the registry the module has or a new one
magazine_refs(h, nsp) ==
    IF nsp["__magazine__"] # None THEN [h |-> h, reg |-> nsp["__magazine__"]]
    ELSE [h |-> Append(h, Registry(<<>>, NoRefs)), reg |-> Len(h) + 1]

\* A reload that leaves the namespace as it is and only adds the registry.
Bootstrap_Keeps(nsp, reg) == [nsp EXCEPT !["__magazine__"] = reg]

\* module.__dict__.clear(); module.__dict__.update(__name__=..., ...)
Bootstrap(nsp, reg) ==
    [k \in Keys |-> IF k \in BootNames THEN nsp[k]
                    ELSE IF k = "__magazine__" THEN reg ELSE None]

\* module.__dict__.update(saved_dict)
RestoreOnFailure(nsp, saved_dict) ==
    [k \in Keys |-> IF saved_dict[k] # None THEN saved_dict[k] ELSE nsp[k]]

\* A test that takes every value of the snapshot for the module's own.
Owned_Always(h, obj) == TRUE

\* getattr(obj, '__module__', None) == module.__name__
Owned(h, obj) == ModuleOf(h, obj) = ModName

\* A registry that keeps only the last identity recorded under a name.
AddRef_Replacing(registry, name, obj) ==
    Registry(IF \E i \in DOMAIN registry.keys : registry.keys[i] = name
             THEN registry.keys ELSE Append(registry.keys, name),
             [registry.refs EXCEPT ![name] = {obj}])

\* magazine_refs[name].add(obj)
AddRef(registry, name, obj) ==
    Registry(IF \E i \in DOMAIN registry.keys : registry.keys[i] = name
             THEN registry.keys ELSE Append(registry.keys, name),
             [registry.refs EXCEPT ![name] = @ \cup {obj}])

\* saved_dict.items(), in the order of the dict
SavedOrder == <<"f", "C">>

\* The loop of lines 50-52 over SavedOrder[i..].
RECURSIVE Record(_, _, _, _)
Record(h, reg, saved_dict, i) ==
    IF i > Len(SavedOrder) THEN h
    ELSE Record(
            IF saved_dict[SavedOrder[i]] # None /\ Owned(h, saved_dict[SavedOrder[i]])
            THEN [h EXCEPT ![reg] = AddRef(@, SavedOrder[i], saved_dict[SavedOrder[i]])]
            ELSE h,
            reg, saved_dict, i + 1)

\* After the loop of lines 50-52 its variable obj still references the last
\* value of saved_dict, to the end of the call: of the names the module
\* binds, the one bound last.
RECURSIVE LastSaved(_, _)
LastSaved(saved_dict, i) ==
    IF i = 0 THEN None
    ELSE IF saved_dict[SavedOrder[i]] # None THEN saved_dict[SavedOrder[i]]
    ELSE LastSaved(saved_dict, i - 1)

\* The state of a reload call: r is [h, ns, exc, reg, saved, handed, phase].
\* After the re-execution e: the except clause, or the recording and the
\* del of saved_dict.
AfterExec(e, reg, saved_dict, handed, hold, full) ==
    IF e.exc # NoExc THEN
        [h |-> e.h, ns |-> RestoreOnFailure(e.ns, saved_dict), exc |-> e.exc,
         reg |-> reg, saved |-> saved_dict, handed |-> handed, phase |-> "exec"]
    ELSE
        [h |-> Collect(Record(e.h, reg, saved_dict, 1),
                       Values(e.ns) \cup hold \cup {LastSaved(saved_dict, Len(SavedOrder))},
                       full),
         ns |-> e.ns, exc |-> NoExc,
         reg |-> reg, saved |-> saved_dict, handed |-> handed, phase |-> "upgrade"]

Cleared(m, nsp, src, gen, hold, full) ==
    AfterExec(_reload(m.h, Bootstrap(nsp, m.reg), src, gen),
              m.reg, nsp, Bootstrap(nsp, m.reg), hold, full)

\* Lines 28-56 of reload.
Prepared(h, nsp, src, gen, hold, full) ==
    Cleared(magazine_refs(h, nsp), nsp, src, gen, hold, full)

\* The orders in which the loops of lines 59-60 can meet the registry:
\* the names in the order of the dict, each weak set in any order.
RECURSIVE Perms(_)
Perms(S) ==
    IF S = {} THEN {<<>>}
    ELSE UNION {{<<x>> \o q : q \in Perms(S \ {x})} : x \in S}

RECURSIVE WorkLists(_, _, _)
WorkLists(keys, refs, i) ==
    IF i > Len(keys) THEN {<<>>}
    ELSE {[j \in 1..Len(q) |-> <<keys[i], q[j]>>] \o rest :
            q \in Perms(refs[keys[i]]), rest \in WorkLists(keys, refs, i + 1)}

\* A reload that meets only what the snapshot held.
Orders_SnapshotOnly(r) ==
    IF r.exc # NoExc THEN {<<>>}
    ELSE {SelectSeq([i \in 1..Len(SavedOrder) |->
                        <<SavedOrder[i], r.saved[SavedOrder[i]]>>],
                    LAMBDA p : p[2] \in r.h[r.reg].refs[p[1]])}

Orders(r) ==
    IF r.exc # NoExc THEN {<<>>}
    ELSE WorkLists(r.h[r.reg].keys, r.h[r.reg].refs, 1)

\* The loops of lines 59-64 over wl[i..]: st is [h, exc, calls].
RECURSIVE UpgradeAll(_, _, _, _, _)
Upgraded(u, calls, nsp, wl, i, upgraders) ==
    UpgradeAll([h |-> u.h, exc |-> u.exc, calls |-> calls], nsp, wl, i + 1, upgraders)

UpgradeAll(st, nsp, wl, i, upgraders) ==
    IF i > Len(wl) \/ st.exc # NoExc THEN st
    ELSE IF wl[i][2] # None /\ nsp[wl[i][1]] # None THEN
        Upgraded(upgrade(st.h, wl[i][2], nsp[wl[i][1]], upgraders),
                 Append(st.calls, <<wl[i][1], wl[i][2], nsp[wl[i][1]]>>),
                 nsp, wl, i, upgraders)
    ELSE UpgradeAll(st, nsp, wl, i + 1, upgraders)

NoReload ==
    [outcome |-> "none", exc |-> NoExc, phase |-> "none", saved |-> <<>>,
     handed |-> <<>>, calls |-> <<>>, reg |-> None,
     src |-> [f |-> "none", C |-> "none", fail |-> "no"]]

\* A reload that puts the snapshot back whatever the outcome.
Outcome_Rollback(r, u, hold) ==
    [h |-> Collect(u.h, Values(r.ns) \cup hold, FALSE),
     ns |-> RestoreOnFailure(r.ns, r.saved),
     rl |-> [outcome |-> IF u.exc = NoExc THEN "ok" ELSE "raised",
             exc |-> u.exc, phase |-> r.phase, saved |-> r.saved,
             handed |-> r.handed, calls |-> u.calls, reg |-> r.reg]]

\* What the caller of reload finds: the call has returned or raised, and
\* the objects only the call's frame kept alive are freed.
Outcome_(r, u, hold) ==
    [h |-> Collect(u.h, Values(r.ns) \cup hold, FALSE),
     ns |-> r.ns,
     rl |-> [outcome |-> IF u.exc = NoExc THEN "ok" ELSE "raised",
             exc |-> u.exc, phase |-> r.phase, saved |-> r.saved,
             handed |-> r.handed, calls |-> u.calls, reg |-> r.reg]]

\* reload(module, upgraders) with the registry met in the order wl
reload(r, wl, upgraders, hold) ==
    Outcome_(r,
             IF r.exc # NoExc THEN [h |-> r.h, exc |-> r.exc, calls |-> <<>>]
             ELSE UpgradeAll([h |-> r.h, exc |-> NoExc, calls |-> <<>>],
                             r.ns, wl, 1, upgraders),
             hold)

\* ---------------------------------------------- SpecReload: one module
\* A module that the host imported, reloaded again and again from changing
\* source, while code outside the module takes references to what the
\* module's names are bound to, drops them, and makes instances.
Bound(nsp) == {<<n, nsp[n]>> : n \in {k \in TopNames : nsp[k] # None}}

Imported(e) ==
    /\ heap = e.h
    /\ ns = e.ns
    /\ ever = Bound(e.ns)

InitReload ==
    /\ \E src \in {sr \in Sources : sr.fail = "no"} :
         Imported(_reload(BaseHeap,
                          [k \in Keys |-> CASE k = "__name__" -> Base.name
                                            [] k = "__loader__" -> Base.loader
                                            [] k = "__spec__" -> Base.spec
                                            [] OTHER -> None],
                          src, 0))
    /\ held = {}
    /\ reloads = 0
    /\ rl = NoReload
    /\ heap0 = heap
    /\ pc = "module" /\ old = None /\ new = None /\ ups = UPGRADERS /\ last = NoCall
    /\ meta_path = <<>> /\ handles = {} /\ made = 0 /\ resolving = <<>>
    /\ stack = <<>> /\ returned = <<>> /\ sys_modules = {} /\ lastload = <<>>

Reloaded(o, src) ==
    /\ heap' = o.h
    /\ ns' = o.ns
    /\ rl' = [field \in DOMAIN o.rl \cup {"src"} |->
                IF field = "src" THEN src ELSE o.rl[field]]
    /\ ever' = ever \cup Bound(o.ns)

Reload ==
    /\ reloads < MaxReloads
    /\ \E src \in Sources, full \in BOOLEAN :
         \E wl \in Orders(Prepared(heap, ns, src, reloads + 1, held, full)) :
            Reloaded(reload(Prepared(heap, ns, src, reloads + 1, held, full),
                            wl, ups, held), src)
    /\ reloads' = reloads + 1
    /\ heap0' = heap
    /\ UNCHANGED <<held, pc, old, new, ups, last, hvars>>

\* Code outside the module reads a name of the module and keeps the value.
Hold ==
    /\ Cardinality(held) < MaxHeld
    /\ \E n \in TopNames :
        /\ ns[n] # None /\ ns[n] \notin held
        /\ held' = held \cup {ns[n]}
    /\ UNCHANGED <<heap, ns, reloads, ever, rl, heap0, pc, old, new, ups, last, hvars>>

\* A holder lets go of its reference.
Drop ==
    /\ \E x \in held :
        /\ held' = held \ {x}
        /\ heap' = Collect(heap, Values(ns) \cup (held \ {x}), FALSE)
    /\ UNCHANGED <<ns, reloads, ever, rl, heap0, pc, old, new, ups, last, hvars>>

\* A holder of a class, or of an instance of it, makes an instance and
\* keeps it.
Instantiate ==
    /\ Cardinality(held) < MaxHeld
    /\ Cardinality({i \in DOMAIN heap : heap[i].kind = "instance"
                                      \/ heap[i] = Dead(Instance(None, None))}) < MaxMade
    /\ \E c \in Reach(heap, Values(ns) \cup held, {}) :
        /\ isclass(heap, c)
        /\ heap' = Append(heap, Instance(c, Len(heap) + 1))
        /\ held' = held \cup {Len(heap) + 1}
    /\ UNCHANGED <<ns, reloads, ever, rl, heap0, pc, old, new, ups, last, hvars>>

NextReload ==
    \/ Reload
    \/ Hold
    \/ Drop
    \/ Instantiate

SpecReload == InitReload /\ [][NextReload]_vars

\* ------------------------------------------------------------ importhook.py
\* The finders of the chain: the observers, and the two finders the host
\* starts with: one that resolves nothing itself but may import while it
\* is asked, and the path finder.
Observer(i) == [kind |-> "observer", id |-> i]
Host(i) == [kind |-> "host", id |-> i]
Finders == [hack |-> Host(1), path |-> Host(2)]
HostChain == <<Finders.hack, Finders.path>>

\* The modules the host can find; a namespace package has no loader.
ModNames == {"a", "b", "p"}
Loaderless == {"p"}
\* A name no finder of the host finds.
Missing == {"x"}

\* A module spec: its name, whether it has a loader, and the observers whose
\* _Loader wraps the loader, innermost first.
ModuleSpec(name) == [name |-> name, loader |-> name \notin Loaderless, wrap |-> <<>>]
NoReturn == [name |-> "", loader |-> FALSE, wrap |-> <<>>]
\* In place of a return value: ModuleNotFoundError is on its way up the stack.
Raising == [name |-> "ModuleNotFoundError", loader |-> FALSE, wrap |-> <<>>]

NoneCalled == [i \in 1..MaxObs |-> 0]

\* A frame of the call stack.  op is "walk" (the host asks the finders of
\* the chain in turn, pos is the next to ask; purpose is "import" or
\* "reload" when the host loads what is found and "find" for
\* importlib.util.find_spec), "find" (find_spec of observer obs, at line 44)
\* or "load" (the load of a module through the wrappers of wrap; purpose is
\* that of the walk that found the module).
Frame(op, name, purpose, pos, obs, wrap, phase) ==
    [op |-> op, name |-> name, purpose |-> purpose, pos |-> pos, obs |-> obs,
     wrap |-> wrap, phase |-> phase, wrapped |-> wrap # <<>>, called |-> NoneCalled]
WalkFrame(name, purpose) == Frame("walk", name, purpose, 1, 0, <<>>, "")
FindFrame(obs, name) == Frame("find", name, "", 0, obs, <<>>, "")
LoadFrame(name, spec) ==
    Frame("load", name, "", 0, 0, spec.wrap, IF spec.loader THEN "exec" ELSE "callbacks")

NoLoad == [name |-> "", wrapped |-> FALSE, called |-> NoneCalled, installed |-> {}]

Top == stack[Len(stack)]
Below == SubSeq(stack, 1, Len(stack) - 1)
Idle == stack = <<>>
Installed == {meta_path[k].id : k \in {j \in DOMAIN meta_path : meta_path[j].kind = "observer"}}
Nested == Cardinality({k \in DOMAIN stack : stack[k].op = "walk" /\ stack[k].purpose # "find"})

\* -- importhook(callback)
Reverse(seq) == [k \in 1..Len(seq) |-> seq[Len(seq) + 1 - k]]

\* list.remove: the first entry equal to x goes
Remove(seq, x) ==
    LET k == CHOOSE j \in DOMAIN seq : seq[j] = x /\ \A m \in 1..(j - 1) : seq[m] # x
    IN  SubSeq(seq, 1, k - 1) \o SubSeq(seq, k + 1, Len(seq))

\* A release that takes the front entry off the chain.
Released_Front(chain, finder) == Tail(chain)

\* Lines 22-24: reverse, remove, reverse.
Released(chain, finder) == Reverse(Remove(Reverse(chain), finder))

\* Lines 16-17, up to the yield.
Install ==
    /\ Idle
    /\ made < MaxObs
    /\ made' = made + 1
    /\ meta_path' = <<Observer(made + 1)>> \o meta_path
    /\ handles' = handles \cup {made + 1}
    /\ UNCHANGED <<resolving, stack, returned, sys_modules, lastload, uvars, rvars>>

\* The context of observer i is left: lines 21-24.
Release ==
    /\ Idle
    /\ \E i \in handles :
        /\ meta_path' = Released(meta_path, Observer(i))
        /\ handles' = handles \ {i}
    /\ UNCHANGED <<made, resolving, stack, returned, sys_modules, lastload, uvars, rvars>>

\* -- the host's import machinery
\* import name, of a module that is not loaded
Import ==
    /\ Idle
    /\ \E name \in (ModNames \cup Missing) \ sys_modules :
        stack' = <<WalkFrame(name, "import")>>
    /\ UNCHANGED <<meta_path, handles, made, resolving, returned, sys_modules, lastload,
                   uvars, rvars>>

\* importlib.reload(module), of a module that is loaded
Reimport ==
    /\ Idle
    /\ \E name \in sys_modules :
        stack' = <<WalkFrame(name, "reload")>>
    /\ UNCHANGED <<meta_path, handles, made, resolving, returned, sys_modules, lastload,
                   uvars, rvars>>

\* The walk on top of the stack is about to ask the finder f.
Asking(f) ==
    /\ stack # <<>> /\ Top.op = "walk" /\ returned = NoReturn
    /\ Top.pos <= Len(meta_path)
    /\ meta_path[Top.pos] = f

Advance == [stack EXCEPT ![Len(stack)].pos = @ + 1]

\* The walk w, with the frames under it, has its spec: a find returns it to
\* its caller, an import or a reload goes on to load the module.
Deliver(under, w, spec) ==
    IF w.purpose = "find" THEN
        /\ stack' = under
        /\ returned' = spec
        /\ UNCHANGED sys_modules
    ELSE
        /\ stack' = Append(under, [LoadFrame(w.name, spec) EXCEPT !.purpose = w.purpose])
        /\ returned' = NoReturn
        /\ sys_modules' = sys_modules \cup {w.name}

\* The path finder finds every module there is ...
AskPath ==
    /\ Asking(Finders.path)
    /\ Top.name \in ModNames
    /\ Deliver(Below, Top, ModuleSpec(Top.name))
    /\ UNCHANGED <<meta_path, handles, made, resolving, lastload, uvars, rvars>>

\* ... and answers None for a name there is no module of.
PathPasses ==
    /\ Asking(Finders.path)
    /\ Top.name \in Missing
    /\ stack' = Advance
    /\ UNCHANGED <<meta_path, handles, made, resolving, returned, sys_modules, lastload,
                   uvars, rvars>>

\* No finder of the chain has the module that an import or a reload asks
\* for: the host raises ModuleNotFoundError in the frame of the walk.
WalkFails ==
    /\ stack # <<>> /\ Top.op = "walk" /\ returned = NoReturn
    /\ Top.pos > Len(meta_path)
    /\ Top.purpose # "find"
    /\ returned' = Raising
    /\ UNCHANGED <<meta_path, handles, made, resolving, stack, sys_modules, lastload,
                   uvars, rvars>>

\* The other host finder finds nothing ...
HackPasses ==
    /\ Asking(Finders.hack)
    /\ stack' = Advance
    /\ UNCHANGED <<meta_path, handles, made, resolving, returned, sys_modules, lastload,
                   uvars, rvars>>

\* ... but may import another module before it answers.
HackImports ==
    /\ Asking(Finders.hack)
    /\ Nested < MaxNest
    /\ \E m \in (ModNames \cup Missing) \ (sys_modules \cup {Top.name}) :
        stack' = Append(Advance, WalkFrame(m, "import"))
    /\ UNCHANGED <<meta_path, handles, made, resolving, returned, sys_modules, lastload,
                   uvars, rvars>>

\* -- _Finder.find_spec
\* Line 39: the guard.
Guarded(i, fullname) ==
    resolving[i] # <<>> /\ resolving[i][Len(resolving[i])] = fullname

\* Lines 39-40: the observer answers None and the walk goes on.
FindSpecGuarded ==
    /\ \E i \in 1..made :
        /\ Asking(Observer(i))
        /\ Guarded(i, Top.name)
    /\ stack' = Advance
    /\ UNCHANGED <<meta_path, handles, made, resolving, returned, sys_modules, lastload,
                   uvars, rvars>>

\* Lines 42-44: the name is pushed and importlib.util.find_spec is called,
\* which answers with the spec of a loaded module and else walks the chain.
FindSpecEnter ==
    /\ \E i \in 1..made :
        /\ Asking(Observer(i))
        /\ ~Guarded(i, Top.name)
        /\ resolving' = [resolving EXCEPT ![i] = Append(@, Top.name)]
        /\ IF Top.name \in sys_modules
           THEN /\ stack' = Append(stack, FindFrame(i, Top.name))
                /\ returned' = ModuleSpec(Top.name)
           ELSE /\ stack' = stack \o <<FindFrame(i, Top.name), WalkFrame(Top.name, "find")>>
                /\ returned' = NoReturn
    /\ UNCHANGED <<meta_path, handles, made, sys_modules, lastload, uvars, rvars>>

\* Lines 47-48.
Wrapped(spec, i) ==
    IF spec.loader THEN [spec EXCEPT !.wrap = Append(@, i)] ELSE spec

\* A finally clause that leaves the name where it is.
Finally_Skipped(res, i) == res

\* Lines 50-51: self.resolving.pop(), in observer i
Finally(res, i) == [res EXCEPT ![i] = SubSeq(@, 1, Len(@) - 1)]

\* Lines 45-51: the spec comes back, its loader is wrapped, the name is
\* popped, and the walk that asked the observer has its spec.
FindSpecReturn ==
    /\ stack # <<>> /\ Top.op = "find" /\ returned \notin {NoReturn, Raising}
    /\ resolving' = Finally(resolving, Top.obs)
    /\ Deliver(SubSeq(stack, 1, Len(stack) - 2), stack[Len(stack) - 1],
               Wrapped(returned, Top.obs))
    /\ UNCHANGED <<meta_path, handles, made, lastload, uvars, rvars>>

\* Lines 44-46, 50-51: importlib.util.find_spec has asked every finder of
\* the chain and answers None; the name is popped, the observer answers
\* None and the walk that asked it goes on.
FindSpecNotFound ==
    /\ stack # <<>> /\ Top.op = "walk" /\ returned = NoReturn
    /\ Top.pos > Len(meta_path)
    /\ Top.purpose = "find"
    /\ resolving' = Finally(resolving, stack[Len(stack) - 1].obs)
    /\ stack' = [SubSeq(stack, 1, Len(stack) - 2) EXCEPT ![Len(stack) - 2].pos = @ + 1]
    /\ UNCHANGED <<meta_path, handles, made, returned, sys_modules, lastload,
                   uvars, rvars>>

\* -- an error on its way up
\* The error leaves the frame on top: a find_spec of an observer pops its
\* name on the way (lines 50-51), a first load takes the module out of
\* sys.modules, and a wrapper's load_module calls nothing (line 60 raised).
\* Out of the last frame the error is the caller's.
Unwind ==
    /\ stack # <<>> /\ returned = Raising
    /\ stack' = Below
    /\ resolving' = IF Top.op = "find" THEN Finally(resolving, Top.obs) ELSE resolving
    /\ sys_modules' = IF Top.op = "load" /\ Top.purpose = "import"
                      THEN sys_modules \ {Top.name} ELSE sys_modules
    /\ returned' = IF Below = <<>> THEN NoReturn ELSE Raising
    /\ UNCHANGED <<meta_path, handles, made, lastload, uvars, rvars>>

\* What made the failed import catches the error and goes on: the body of
\* a module, or the host finder that imports while it is asked.
Catch ==
    /\ stack # <<>> /\ returned = Raising
    /\ \/ Top.op = "load" /\ Top.phase = "exec"
       \/ /\ Top.op = "walk"
          /\ Top.pos - 1 \in DOMAIN meta_path
          /\ meta_path[Top.pos - 1] = Finders.hack
    /\ returned' = NoReturn
    /\ UNCHANGED <<meta_path, handles, made, resolving, stack, sys_modules, lastload,
                   uvars, rvars>>

\* -- _Loader.load_module
\* Line 60, in the innermost loader: the body of the module imports
\* another module ...
BodyImports ==
    /\ stack # <<>> /\ Top.op = "load" /\ Top.phase = "exec" /\ returned = NoReturn
    /\ Nested < MaxNest
    /\ \E m \in (ModNames \cup Missing) \ sys_modules :
        stack' = Append(stack, WalkFrame(m, "import"))
    /\ UNCHANGED <<meta_path, handles, made, resolving, returned, sys_modules, lastload,
                   uvars, rvars>>

\* ... and comes to its end: the loader returns the module.
BodyDone ==
    /\ stack # <<>> /\ Top.op = "load" /\ Top.phase = "exec" /\ returned = NoReturn
    /\ stack' = [stack EXCEPT ![Len(stack)].phase = "callbacks"]
    /\ UNCHANGED <<meta_path, handles, made, resolving, returned, sys_modules, lastload,
                   uvars, rvars>>

\* Lines 61-62, in the innermost wrapper that has not returned.
Callback ==
    /\ stack # <<>> /\ Top.op = "load" /\ Top.phase = "callbacks" /\ returned = NoReturn
    /\ Top.wrap # <<>>
    /\ stack' = [stack EXCEPT ![Len(stack)].called[Head(Top.wrap)] = @ + 1,
                              ![Len(stack)].wrap = Tail(@)]
    /\ UNCHANGED <<meta_path, handles, made, resolving, returned, sys_modules, lastload,
                   uvars, rvars>>

\* Line 63, in the outermost wrapper: the load returns to what started it.
LoadReturns ==
    /\ stack # <<>> /\ Top.op = "load" /\ Top.phase = "callbacks" /\ returned = NoReturn
    /\ Top.wrap = <<>>
    /\ stack' = Below
    /\ lastload' = [name |-> Top.name, wrapped |-> Top.wrapped,
                    called |-> Top.called, installed |-> Installed]
    /\ UNCHANGED <<meta_path, handles, made, resolving, returned, sys_modules,
                   uvars, rvars>>

\* ------------------------------------------------- SpecHook: the observers
InitHook ==
    /\ meta_path = HostChain
    /\ handles = {}
    /\ made = 0
    /\ resolving = [i \in 1..MaxObs |-> <<>>]
    /\ stack = <<>>
    /\ returned = NoReturn
    /\ sys_modules = {}
    /\ lastload = NoLoad
    /\ heap = <<>> /\ pc = "hook" /\ old = None /\ new = None /\ ups = <<>>
    /\ heap0 = <<>> /\ last = <<>>
    /\ ns = <<>> /\ held = {} /\ reloads = 0 /\ ever = {} /\ rl = <<>>

NextHook ==
    \/ Install
    \/ Release
    \/ Import
    \/ Reimport
    \/ AskPath
    \/ PathPasses
    \/ WalkFails
    \/ HackPasses
    \/ HackImports
    \/ FindSpecGuarded
    \/ FindSpecEnter
    \/ FindSpecReturn
    \/ FindSpecNotFound
    \/ Unwind
    \/ Catch
    \/ BodyImports
    \/ BodyDone
    \/ Callback
    \/ LoadReturns

SpecHook == InitHook /\ [][NextHook]_vars

\* ------------------------------------------------- claims on SpecUpgrade
Returns(op) == pc = "done" /\ last.op = op /\ last.exc = NoExc

\* The instances of cls and of its subclasses.
RECURSIVE Inherits(_, _, _)
Inherits(h, cls, base) ==
    cls # None /\ (cls = base \/ Inherits(h, h[cls].base, base))

\* C3: once upgrade_class(old, new) has returned on two classes, every
\* instance whose exact type was old has type new with its fields as they
\* were, and every other object (the instances of a strict subclass of old,
\* the referrers of old that are not its instances) is of the type it was.
C3_Retagged ==
    (Returns("upgrade_class") /\ isclass(heap0, old) /\ isclass(heap0, new)) =>
        \A i \in DOMAIN heap0 :
            /\ heap[i].kind = heap0[i].kind
            /\ heap0[i].kind = "instance" =>
                /\ heap[i].fields = heap0[i].fields
                /\ heap[i].cls = IF heap0[i].cls = old THEN new ELSE heap0[i].cls

\* C3, its case reached: upgrade_class has returned, an instance of old is
\* now an instance of new, an instance of a subclass of old kept its type,
\* and a class is among the referrers of old.
C3_Witness ==
    /\ Returns("upgrade_class") /\ isclass(heap0, old) /\ old # new
    /\ \E i \in DOMAIN heap0 : TypeIs(heap0, i, old) /\ TypeIs(heap, i, new)
    /\ \E i \in DOMAIN heap0 :
            /\ heap0[i].kind = "instance" /\ heap0[i].cls # old
            /\ Inherits(heap0, heap0[i].cls, old)
            /\ heap[i].cls = heap0[i].cls
    /\ \E i \in get_referrers(heap0, old) : heap0[i].kind = "class"

\* A name that old defines itself and that does not resolve on new.
Stale(k) ==
    /\ isclass(heap0, old) /\ isclass(heap0, new)
    /\ heap0[old].members[k] # None
    /\ getattr(heap0, new, k).exc = "AttributeError"

Resolves(h, cls, k) == getattr(h, cls, k).exc = NoExc

\* In the log of the call, every deletion on old follows every scan of old.
DeletesAfterScan ==
    \A i, j \in DOMAIN last.log :
        (last.log[i][1] = "del" /\ last.log[i][2] = old
            /\ last.log[j][1] = "scan" /\ last.log[j][2] = old) => j < i

\* C5 as stated: after the class upgrade a stale member resolves neither on
\* the old class, nor on the new one, nor on a retagged instance.
C5_AsStated ==
    \A k \in MemberNames :
        (Returns("upgrade_class") /\ Stale(k)) =>
            /\ ~Resolves(heap, old, k)
            /\ ~Resolves(heap, new, k)
            /\ \A i \in DOMAIN heap0 :
                    TypeIs(heap0, i, old) => ~Resolves(heap, heap[i].cls, k)
            /\ DeletesAfterScan

\* C5, amended: once the class upgrade has returned, a stale member is no
\* longer a member of the old class itself and resolves neither on the new
\* class nor on a retagged instance; on the old class the name resolves only
\* where a base class of the old class defines it.  The deletions are made
\* after the scan of old's members has finished.
C5_StaleRemoved ==
    \A k \in MemberNames :
        (Returns("upgrade_class") /\ Stale(k)) =>
            /\ heap[old].members[k] = None
            /\ (Resolves(heap, old, k) <=> Resolves(heap0, heap0[old].base, k))
            /\ ~Resolves(heap, new, k)
            /\ \A i \in DOMAIN heap0 :
                    TypeIs(heap0, i, old) =>
                        heap[i].cls = new /\ ~Resolves(heap, heap[i].cls, k)
            /\ DeletesAfterScan
            /\ \E i \in DOMAIN last.log : last.log[i] = <<"del", old, k>>

\* C5, its case reached: old defined m and another member, new has no m,
\* old has an instance, and the upgrade has taken m off old.
C5_Witness ==
    /\ Returns("upgrade_class") /\ Stale("m")
    /\ heap0[old].members["k"] # None
    /\ \E i \in DOMAIN heap0 : TypeIs(heap0, i, old)
    /\ heap[old].members["m"] = None

\* The kind-guard of one strategy (lines 78, 95-98, 102, 147).
GuardMatches(strategy, h, o, n) ==
    CASE strategy = "upgrade_class" -> isclass(h, o) /\ isclass(h, n)
      [] strategy = "upgrade_function" -> isfunction(h, o) /\ isfunction(h, n)
      [] strategy = "upgrade_property" -> isproperty(h, o) /\ isproperty(h, n)
      [] strategy = "upgrade_method" ->
            /\ ismethod(h, o) /\ ismethod(h, n)
            /\ isfunction(h, h[o].func) /\ isfunction(h, h[n].func)

\* C9: when upgrade(old, new, strategies) returns, it returns true iff the
\* guard of some strategy in the list matches the pair; the strategies were
\* called in the order of the list up to the first one whose guard matches
\* and none after it, that one's upgrade is what happened to the heap, and
\* the default list is class, function, descriptor, method.
C9_Dispatch ==
    Returns("upgrade") =>
        LET t == Len(last.tried) IN
        /\ (last.ret <=> \E i \in DOMAIN ups : GuardMatches(ups[i], heap0, old, new))
        /\ t <= Len(ups) /\ last.tried = SubSeq(ups, 1, t)
        /\ \A j \in 1..t : GuardMatches(ups[j], heap0, old, new) => (j = t /\ last.ret)
        /\ last.ret => (t > 0 /\ heap = Apply(ups[t], heap0, old, new, ups).h)
        /\ ~last.ret => (t = Len(ups) /\ heap = heap0)
        /\ UPGRADERS = <<"upgrade_class", "upgrade_function",
                         "upgrade_property", "upgrade_method">>

\* C9, its case reached: with the default list the first strategy declined,
\* the second one matched and changed the heap, and no other was called.
C9_Witness ==
    /\ Returns("upgrade") /\ last.ret
    /\ ups = UPGRADERS /\ last.tried = SubSeq(UPGRADERS, 1, 2)
    /\ heap # heap0

PartNames == {"fget", "fset", "fdel"}

\* C10 as stated: after upgrade_property(old, new) on two descriptors, a
\* part that is a function on both sides keeps its identity on old and has
\* new's body, any other part of old is new's part, and the call returned
\* true.
C10_AsStated ==
    (Returns("upgrade_property")
        /\ isproperty(heap0, old) /\ isproperty(heap0, new)) =>
        /\ last.ret
        /\ \A p \in PartNames :
            LET op == getattr(heap0, old, p).val
                np == getattr(heap0, new, p).val
            IN  IF isfunction(heap0, op) /\ isfunction(heap0, np)
                THEN getattr(heap, old, p).val = op /\ heap[op].code = heap0[np].code
                ELSE getattr(heap, old, p).val = np


\* -------------------------------------------------- claims on SpecReload
\* The last reload call raised out of the re-execution of the module body.
ExecFailed == rl.outcome = "raised" /\ rl.phase = "exec"

\* C1, as the specification states it: when the re-execution of the module
\* body fails, the namespace the caller finds is exactly the snapshot taken
\* before the call: no name more, no name less, each name bound to the
\* identity it had.
C1_AsStated == ExecFailed => ns = rl.saved

\* The last reload call returned, f was bound to a function of the module
\* before the call and is bound to a function after it, and a holder
\* outside the module still has the prior function.
PriorF == rl.saved["f"]
C2_Case ==
    /\ rl.outcome = "ok"
    /\ isfunction(heap0, PriorF) /\ Owned(heap0, PriorF)
    /\ isfunction(heap, ns["f"])
    /\ PriorF \in held

\* C2: after a reload that returned, a function that f was bound to before
\* the call and that a holder still references is the same live function
\* object, it runs the code of the function f is bound to now, and that
\* reload call recorded it in the registry under f and passed it, with the
\* new function, to the upgrade dispatcher.
C2_FunctionUpgraded ==
    C2_Case =>
        /\ isfunction(heap, PriorF)
        /\ heap[PriorF].code = heap[ns["f"]].code
        /\ PriorF \in heap[rl.reg].refs["f"]
        /\ \E i \in DOMAIN rl.calls : rl.calls[i] = <<"f", PriorF, ns["f"]>>

\* C2, its case reached: the held function ran other code before the call.
C2_Witness ==
    /\ C2_Case
    /\ PriorF # ns["f"]
    /\ heap0[PriorF].code # heap[PriorF].code
    /\ heap[PriorF].code.body = reloads

\* An entity that some generation bound to the name p[1], that the module
\* owns, and that is alive because a holder references it or something
\* that leads to it.
HeldOver(p) ==
    /\ p[2] \in Reach(heap, held, {})
    /\ Owned(heap, p[2])

\* C4: on every reload call that returns, each entity that an earlier
\* generation bound to a name n, that the module owns and that holders keep
\* alive, is passed to the upgrade dispatcher with the current binding of
\* n, whenever n is bound in the rebuilt namespace.
C4_CrossGeneration ==
    [][(reloads' = reloads + 1 /\ rl'.outcome = "ok") =>
          \A p \in ever :
             (HeldOver(p) /\ ns'[p[1]] # None) =>
                \E i \in DOMAIN rl'.calls : rl'.calls[i] = <<p[1], p[2], ns'[p[1]]>>]_vars

\* C4, its case reached: the second reload has returned after passing to the
\* dispatcher an entity of generation 0 that the namespace had stopped
\* referencing one generation earlier and that only a holder kept alive.
C4_Witness ==
    /\ rl.outcome = "ok" /\ reloads = 2
    /\ \E i \in DOMAIN rl.calls :
        /\ rl.calls[i][2] \in held
        /\ rl.calls[i][2] \notin Values(rl.saved)
        /\ rl.calls[i][2] <= Len(BaseHeap) + 2
        /\ <<rl.calls[i][1], rl.calls[i][2]>> \in ever
        /\ rl.calls[i][3] = ns[rl.calls[i][1]]
        /\ rl.calls[i][3] # rl.saved[rl.calls[i][1]]


\* ---------------------------------------------------- claims on SpecHook
\* C6, as the specification states it: a load that goes through the
\* wrapper of an observer has called no callback while the module body
\* runs, and when it returns it has called the callback of every installed
\* observer exactly once.
C6_AsStated ==
    /\ \A k \in DOMAIN stack :
          (stack[k].op = "load" /\ stack[k].phase = "exec") =>
              stack[k].called = NoneCalled
    /\ lastload.wrapped =>
          \A i \in lastload.installed : lastload.called[i] = 1

NoDuplicates(seq) == \A j, k \in DOMAIN seq : seq[j] = seq[k] => j = k

\* C7, as the specification states it: an observer asked for a name that is
\* anywhere on its stack of names in flight does not push it again, so no
\* stack ever holds a name twice.
C7_AsStated == \A i \in DOMAIN resolving : NoDuplicates(resolving[i])

\* The chain without the finder f, the order of the others kept.
Without(chain, f) ==
    LET Other(x) == x # f
    IN  SelectSeq(chain, Other)

\* C8: every install puts the new observer at the front of the chain, every
\* release takes exactly the released observer out of the chain and leaves
\* the others in their order, whatever the order of the releases, and with
\* no observer left the chain is the host's own chain again.
C8_Chain ==
    [][/\ made' # made => meta_path' = <<Observer(made')>> \o meta_path
       /\ \A i \in handles \ handles' :
            /\ meta_path' = Without(meta_path, Observer(i))
            /\ Len(meta_path') = Len(meta_path) - 1
       /\ handles' = {} => meta_path' = HostChain]_vars

\* C8, its case reached: two observers were installed together, the one
\* installed first has been released, and the other is still at the front.
C8_Witness ==
    /\ lastload.installed = {1, 2}
    /\ handles = {2}
    /\ meta_path = <<Observer(2)>> \o HostChain

\* ------------------------------------------ more claims on SpecUpgrade
\* C11, as the specification states it: upgrade_function on two plain
\* functions signals no error and returns true, however the copy of one
\* aspect fails, and the aspects that can be written on old (the default
\* arguments, the attribute mapping, the documentation string) are new's
\* afterwards.
C11_AsStated ==
    (pc = "done" /\ last.op = "upgrade_function"
        /\ isfunction(heap0, old) /\ isfunction(heap0, new)) =>
        /\ last.exc = NoExc
        /\ last.ret
        /\ heap[old].defaults = heap0[new].defaults
        /\ heap[old].dict = heap0[new].dict
        /\ heap[old].doc = heap0[new].doc

\* C12, as the specification states it: upgrade_class on two classes never
\* signals an error and returns true, whatever the members and the live
\* instances are.
C12_AsStated ==
    (pc = "done" /\ last.op = "upgrade_class"
        /\ isclass(heap0, old) /\ isclass(heap0, new)) =>
        /\ last.exc = NoExc
        /\ last.ret

\* ------------------------------------------- more claims on SpecReload
TheRegistry == ns["__magazine__"]

\* C13: from its first reload on, failed or not, the module has a registry
\* in its namespace and it is the same object ever after; and through every
\* step an identity recorded under a name stays recorded under that name
\* for as long as the object is alive.
C13_RegistryKept ==
    [][/\ reloads' = reloads + 1 =>
            /\ TheRegistry' # None
            /\ heap'[TheRegistry'].kind = "registry"
       /\ TheRegistry # None =>
            /\ TheRegistry' = TheRegistry
            /\ \A n \in TopNames : \A x \in heap[TheRegistry].refs[n] :
                  heap'[x].kind # "dead" => x \in heap'[TheRegistry'].refs[n]]_vars

\* C13, its case reached: after two reloads the one registry holds, under
\* f, the functions of two generations.
C13_Witness ==
    /\ reloads = 2
    /\ TheRegistry # None /\ TheRegistry = Len(BaseHeap) + 2
    /\ Cardinality(heap[TheRegistry].refs["f"]) = 2


isdata(h, x) == x # None /\ h[x].kind = "data"

\* C14: on every reload whose re-execution succeeds and rebinds f from one
\* plain data value to another, the call returns without an error, f is
\* bound to the new value, the old value is never passed to the dispatcher,
\* and an old value that a holder keeps is the object it was.
C14_DataReplaced ==
    [][(/\ reloads' = reloads + 1
        /\ rl'.src.fail = "no" /\ rl'.src.f = "data"
        /\ isdata(heap, ns["f"])) =>
          /\ rl'.outcome = "ok"
          /\ ns'["f"] # ns["f"]
          /\ heap'[ns'["f"]] = Data(reloads')
          /\ \A i \in DOMAIN rl'.calls : rl'.calls[i][2] # ns["f"]
          /\ ns["f"] \in held => heap'[ns["f"]] = heap[ns["f"]]]_vars

\* C14, its case reached: a reload has returned, f was data and is new
\* data, and a holder still has the old value.
C14_Witness ==
    /\ rl.outcome = "ok"
    /\ isdata(heap, rl.saved["f"]) /\ rl.saved["f"] \in held
    /\ isdata(heap, ns["f"]) /\ ns["f"] # rl.saved["f"]
    /\ heap[rl.saved["f"]] # heap[ns["f"]]


\* C15, as the specification states it: whenever a reload call raises to its
\* caller, it is the re-execution of the module body that failed.
C15_AsStated == rl.outcome = "raised" => rl.phase = "exec"


\* upgrade_class(old, new) has returned on two classes.
ClassesUpgraded ==
    Returns("upgrade_class") /\ isclass(heap0, old) /\ isclass(heap0, new)

OwnNames(h, cls) == {k \in MemberNames : h[cls].members[k] # None}

\* A name that old defines itself and that new resolves to another object.
Changed(k) ==
    /\ heap0[old].members[k] # None
    /\ Resolves(heap0, new, k)
    /\ getattr(heap0, new, k).val # heap0[old].members[k]

\* Some strategy of the list takes old's and new's values of k.
MemberMatched(k) ==
    \E i \in DOMAIN ups :
        GuardMatches(ups[i], heap0, heap0[old].members[k], getattr(heap0, new, k).val)

\* What the call did on the names: a changed member is the object it was
\* when a strategy matched the pair and is new's value when none did, and
\* a name only new defines is on old with new's value.
MembersMerged ==
    \A k \in MemberNames :
        /\ Changed(k) =>
              /\ getattr(heap, old, k).val =
                    IF MemberMatched(k) THEN heap0[old].members[k]
                    ELSE getattr(heap, new, k).val
              /\ \E i \in DOMAIN last.log :
                    last.log[i] = <<IF MemberMatched(k) THEN "upgraded" ELSE "replaced",
                                    old, k>>
        /\ (heap0[new].members[k] # None /\ heap0[old].members[k] = None) =>
              /\ getattr(heap, old, k).val = heap[new].members[k]
              /\ heap[old].members[k] = heap0[new].members[k]

\* C16, as the specification states it: after the class upgrade the changed
\* and the added members are merged into old, and old and new define the
\* same set of member names.
C16_AsStated ==
    ClassesUpgraded =>
        /\ MembersMerged
        /\ OwnNames(heap, old) = OwnNames(heap, new)

\* C16, amended: once the class upgrade has returned, the changed and the
\* added members are merged into old; old then defines itself every name
\* new defines itself, and besides those the names it defined before that
\* new resolves through a base class only.  New's own members are as they
\* were.
C16_MembersMerged ==
    ClassesUpgraded =>
        /\ MembersMerged
        /\ heap[new].members = heap0[new].members
        /\ OwnNames(heap, old) =
              OwnNames(heap0, new)
                \cup {k \in OwnNames(heap0, old) : Resolves(heap0, new, k)}

\* C16, its case reached: old defined m with a function, new takes m from
\* its base class and defines k, which old did not; after the call old has
\* both names and new has k alone.
C16_Witness ==
    /\ ClassesUpgraded /\ old # new
    /\ isfunction(heap0, heap0[old].members["m"])
    /\ heap0[new].members["m"] = None /\ Changed("m") /\ MemberMatched("m")
    /\ heap0[old].members["k"] = None /\ heap0[new].members["k"] # None
    /\ OwnNames(heap, old) = {"m", "k"} /\ OwnNames(heap, new) = {"k"}


\* The re-execution of the last reload went through.
Reexecuted == rl.outcome # "none" /\ rl.phase = "upgrade"

Recorded(h, nsp, n) ==
    IF nsp["__magazine__"] = None THEN {} ELSE h[nsp["__magazine__"]].refs[n]

\* C18: on every reload whose re-execution goes through, the registry's set
\* for a name gains at most the snapshot's value of that name, and a value
\* of the snapshot that is alive after the call is in the set iff its
\* __module__ is the module's name; no object of another module is passed
\* to the dispatcher as the old entity of a name.  On every reload whose
\* re-execution fails the sets are as they were.
C18_OwnedRecorded ==
    [][reloads' = reloads + 1 =>
        /\ rl'.phase = "upgrade" =>
            /\ \A n \in TopNames :
                /\ Recorded(heap', ns', n) \ Recorded(heap, ns, n) \subseteq {ns[n]}
                /\ (ns[n] # None /\ heap'[ns[n]].kind # "dead") =>
                      ((ns[n] \in Recorded(heap', ns', n))
                          <=> (ModuleOf(heap, ns[n]) = ModName))
            /\ \A i \in DOMAIN rl'.calls :
                /\ rl'.calls[i][2] # Base.ext
                /\ ModuleOf(heap, rl'.calls[i][2]) = ModName
        /\ rl'.phase = "exec" =>
            \A n \in TopNames : Recorded(heap', ns', n) = Recorded(heap, ns, n)]_vars

\* C18, its case reached: a reload has returned from a module that bound C
\* to a function of another module and f to a function of its own that a
\* holder keeps; f's old function is recorded and was dispatched, the
\* other module's function is not recorded though C is bound again.
C18_Witness ==
    /\ rl.outcome = "ok"
    /\ rl.saved["C"] = Base.ext /\ ns["C"] # None
    /\ isfunction(heap, rl.saved["f"]) /\ rl.saved["f"] \in held
    /\ rl.saved["f"] \in Recorded(heap, ns, "f")
    /\ Base.ext \notin Recorded(heap, ns, "C")
    /\ \E i \in DOMAIN rl.calls : rl.calls[i][2] = rl.saved["f"]


LiveInstances(h) == {i \in DOMAIN h : h[i].kind = "instance"}

\* C19: on every reload that returns with C bound to a class, every live
\* instance was an instance of a class that C was bound to at some time,
\* and is an instance of the class C is bound to now, whichever the order
\* in which the reload met the registry.
C19_InstancesCurrent ==
    [][(reloads' = reloads + 1 /\ rl'.outcome = "ok" /\ isclass(heap', ns'["C"])) =>
          \A i \in LiveInstances(heap') :
             /\ <<"C", heap[i].cls>> \in ever
             /\ heap'[i].cls = ns'["C"]
             /\ heap'[i].fields = heap[i].fields]_vars

\* C19, its case reached: the second reload has returned; an instance made
\* after the first reload from the class of the first generation, which was
\* not the class C was bound to then, is an instance of the class C is
\* bound to now.
C19_Witness ==
    /\ reloads = 2 /\ rl.outcome = "ok" /\ isclass(heap, ns["C"])
    /\ isclass(heap0, rl.saved["C"])
    /\ \E i \in LiveInstances(heap) :
          /\ i \in DOMAIN heap0 /\ i > rl.saved["C"]
          /\ heap0[i].cls < rl.saved["C"]
          /\ heap[i].cls = ns["C"]


\* --------------------------------------------- more claims on SpecHook
\* The names of the find_spec calls of observer i that are on the call
\* stack, outermost first.
InFlight(i) ==
    [k \in 1..Cardinality({j \in DOMAIN stack : stack[j].op = "find" /\ stack[j].obs = i}) |->
        stack[CHOOSE j \in DOMAIN stack :
                /\ stack[j].op = "find" /\ stack[j].obs = i
                /\ Cardinality({m \in 1..j : stack[m].op = "find" /\ stack[m].obs = i}) = k].name]

\* C20: through every step, the list of names of an observer is the names
\* of its find_spec calls that have not come to their end, in the order
\* they were entered: a call that pushes its name pops it when it returns
\* a spec, when it returns None and when an error passes through it; a
\* call the guard answers leaves every list as it is; and the lists are
\* empty whenever the host is not in an import.
C20_Balanced ==
    [][/\ \A i \in 1..MaxObs :
            /\ resolving'[i] = InFlight(i)'
            /\ stack' = <<>> => resolving'[i] = <<>>
       /\ (\E i \in 1..made : Asking(Observer(i)) /\ Guarded(i, Top.name)) =>
            resolving' = resolving
       /\ (stack # <<>> /\ Top.op = "find" /\ Len(stack') < Len(stack)) =>
            /\ resolving[Top.obs] = Append(resolving'[Top.obs], Top.name)
            /\ \A j \in 1..MaxObs : j # Top.obs => resolving'[j] = resolving[j]]_vars

\* C20, its case reached: an error is on its way up and has just left the
\* find_spec of an observer, whose list is empty again, while the
\* find_spec of another observer that it will pass through next still has
\* its name on its list.
C20_Witness ==
    /\ returned = Raising
    /\ stack # <<>> /\ Top.op = "walk"
    /\ Top.pos \in DOMAIN meta_path /\ meta_path[Top.pos].kind = "observer"
    /\ resolving[meta_path[Top.pos].id] = <<>>
    /\ \E j \in 1..MaxObs : resolving[j] = <<Top.name>>

====
